---- MODULE Spec2Model ----
(***************************************************************************)
(* The village-level pest-risk advisory prototype.                         *)
(*                                                                         *)
(* Two variants of the Streamlit script are modelled:                      *)
(*   "app"      src/app.py            (ML models, simulated features)      *)
(*   "part_000" src/unnamed/part_000  (mock prediction)                    *)
(* A Streamlit script is executed top to bottom on every user interaction; *)
(* one such execution is a run.  The process-wide state that outlives a    *)
(* run is numpy's global generator and the st.cache_resource cache.        *)
(*                                                                         *)
(* Numbers.  Floats are fixed-point integers:                              *)
(*   coordinates   in 1/CoordScale degrees,                                *)
(*   probabilities in 1/ProbScale,                                         *)
(*   features      in 1/(100*RngMod) of their unit.                        *)
(* numpy's Mersenne Twister is abstracted by a linear congruential         *)
(* generator over 0..RngMod-1: seeding replaces the whole state, a draw    *)
(* advances it and yields the new state as the fraction state/RngMod of    *)
(* [0,1).                                                                  *)
(***************************************************************************)
EXTENDS Integers, Sequences, FiniteSets, TLC

\* ------------------------------------------------------------------ bounds
CoordScale == 100
ProbScale == 1000000
RngMod == 64
MaxInitRng == 1
MaxPhoneLen == 2
NumThreads == 2

\* ------------------------------------------------------- program constants
\* seed modulus of generate_features
SeedMod == 10000
\* THRESHOLD = 0.35, in hundredths
THRESHOLD == 35

Unset == 0 - 1
None == "None"

\* ----------------------------------------------------------------- strings
\* A string is a sequence of one-character strings.
Whitespace == {" "}
UpperCase == <<"D", "T", "V", "L", "A", "K", "U", "I", "S", "R", "C", "G", "E", "O", "N">>
LowerCase == <<"d", "t", "v", "l", "a", "k", "u", "i", "s", "r", "c", "g", "e", "o", "n">>

SetMin(S) == CHOOSE x \in S : \A y \in S : x <= y
SetMax(S) == CHOOSE x \in S : \A y \in S : x >= y

\* str.strip() that removes nothing: a non-empty blank string stays truthy.
StripNothing(s) == s

\* str.strip(): drop leading and trailing whitespace.
Strip(s) ==
    LET keep == {i \in 1..Len(s) : s[i] \notin Whitespace}
    IN  IF keep = {} THEN <<>> ELSE SubSeq(s, SetMin(keep), SetMax(keep))

LowerChar(ch) ==
    IF \E i \in 1..Len(UpperCase) : UpperCase[i] = ch
    THEN LowerCase[CHOOSE i \in 1..Len(UpperCase) : UpperCase[i] = ch]
    ELSE ch

\* str.lower()
Lower(s) == [i \in 1..Len(s) |-> LowerChar(s[i])]

ColDistrict == <<"d", "i", "s", "t", "r", "i", "c", "t">>
ColTaluka == <<"t", "a", "l", "u", "k", "a">>
ColVillage == <<"v", "i", "l", "l", "a", "g", "e">>
ColLat == <<"l", "a", "t">>
ColLon == <<"l", "o", "n">>

required_cols == {ColDistrict, ColTaluka, ColVillage, ColLat, ColLon}

\* locations.columns.str.strip().str.lower()
CleanColumns(header) == {Lower(Strip(h)) : h \in header}

\* ---------------------------------------------------------- the CSV inputs
HeaderExact == required_cols
HeaderMessy ==
    { <<" ", "D", "i", "s", "t", "r", "i", "c", "t">>,
      <<"T", "A", "L", "U", "K", "A">>,
      <<"v", "i", "l", "l", "a", "g", "e", " ">>,
      <<"L", "a", "t">>,
      ColLon }
HeaderNoLon == {ColDistrict, ColTaluka, ColVillage, ColLat}
Headers == {HeaderExact, HeaderMessy, HeaderNoLon}

Row(d, t, v, la, lo) == [district |-> d, taluka |-> t, village |-> v, lat |-> la, lon |-> lo]

\* Coordinates are written for CoordScale = 100 (18.58 is 1858).
DataPune ==
    << Row("Pune", "Haveli", "Wagholi", 1858, 7398),
       Row("Pune", "Haveli", "Lohegaon", 1900, 7300),
       Row("Nashik", "Niphad", "Wagholi", 2008, 7410) >>
DataWest == << Row("Thane", "Kalyan", "Mharal", 1925, 0 - 7315) >>
DataEmpty == << >>
Datasets == {DataPune, DataWest, DataEmpty}

Coords == UNION {{<<ds[i].lat, ds[i].lon>> : i \in 1..Len(ds)} : ds \in Datasets}

\* ------------------------------------------------------------- classifiers
Classifier(caps, raises) == [caps |-> caps, raises |-> raises]
XgbLike == Classifier({"predict_proba", "predict"}, FALSE)
LogRegLike == Classifier({"predict_proba", "decision_function", "predict"}, FALSE)
SvmLike == Classifier({"decision_function", "predict"}, FALSE)
LabelOnly == Classifier({"predict"}, FALSE)
Faulty == Classifier({"predict_proba", "predict"}, TRUE)
ClassifierKinds == {XgbLike, LogRegLike, SvmLike, LabelOnly, Faulty}

Crops == {"Rice", "Cotton"}

ProbValues ==
    { 0, ProbScale \div 10,
      (THRESHOLD * ProbScale) \div 100 - 1,
      (THRESHOLD * ProbScale) \div 100,
      ProbScale \div 2, ProbScale }

PhoneChars == {" ", "9"}
PhoneInputs == UNION {[1..n -> PhoneChars] : n \in 0..MaxPhoneLen}

Threads == 1..NumThreads

VARIABLES
    variant, csvHeader, csvRows, artifactsOk, rice_model, cotton_model,
    rngState, modelCache,
    crop, district, taluka, village, phone,
    pc, err, columns, loc_row, lat, lon,
    seed, features, invoked, scoredVia, prob, pest_risk, metric, banner, sms,
    memo, lastCall, between,
    tpc, targ, tseed, tfeat

envVars == <<variant, csvHeader, csvRows, artifactsOk, rice_model, cotton_model>>
procVars == <<rngState, modelCache>>
widgetVars == <<crop, district, taluka, village, phone>>
locVars == <<columns, loc_row, lat, lon>>
scoreVars == <<seed, features, invoked, scoredVia, prob, pest_risk, metric, banner, sms>>
\* history: what generate_features returned first for each coordinate pair, the
\* coordinates of the latest call, and whether the call of this run repeated an
\* earlier one with a call for other coordinates in between
histVars == <<memo, lastCall, between>>
threadVars == <<tpc, targ, tseed, tfeat>>
vars == <<envVars, procVars, widgetVars, pc, err, locVars, scoreVars, histVars, threadVars>>

\* ------------------------------------------------------- feature generator
Abs(x) == IF x < 0 THEN 0 - x ELSE x

\* int(abs(lat * lon) * 1000) % 10000.  With x = |la * lo| in 1/CoordScale^2,
\* floor(x * 1000 / CoordScale^2) is taken quotient and remainder apart, which
\* keeps the product within TLC's 32-bit integers.
SeedOf(la, lo) ==
    LET x == Abs(la * lo)
        u == CoordScale * CoordScale
    IN  ((x \div u) * 1000 + ((x % u) * 1000) \div u) % SeedMod

\* np.random.seed(s): the global generator's state becomes a function of s alone.
np_seed(s) == (7 * s + 1) % RngMod

\* One step of the generator.
RngNext(st) == (5 * st + 3) % RngMod

\* np.random.uniform(low, high) read off generator state st (already advanced):
\* low + (high - low) * st / RngMod, in units of 1/RngMod.
Uniform(low, high, st) == low * RngMod + (high - low) * st

\* [low, high] of the four draws, in hundredths, in the order of the source:
\* rainfall, temperature, humidity, ndvi.
DrawRange == << <<5000, 20000>>, <<2200, 3800>>, <<4500, 9000>>, <<25, 85>> >>

\* The k-th draw of generate_features, read off generator state st.
Draw(k, st) == Uniform(DrawRange[k][1], DrawRange[k][2], st)

\* The four draws of generate_features from the state s0 left by the seeding.
FourDraws(s0) ==
    LET s1 == RngNext(s0)
        s2 == RngNext(s1)
        s3 == RngNext(s2)
        s4 == RngNext(s3)
    IN  [ features |-> <<Draw(1, s1), Draw(2, s2), Draw(3, s3), Draw(4, s4)>>,
          rng |-> s4 ]

\* generate_features with the np.random.seed call left out: the draws continue
\* from whatever state the global generator is in.
generate_features_unseeded(la, lo, rng) ==
    LET d == FourDraws(rng)
    IN  [seed |-> SeedOf(la, lo), features |-> d.features, rng |-> d.rng]

\* generate_features returning [temperature, rainfall, humidity, ndvi].
generate_features_reordered(la, lo, rng) ==
    LET d == FourDraws(np_seed(SeedOf(la, lo)))
    IN  [ seed |-> SeedOf(la, lo),
          features |-> <<d.features[2], d.features[1], d.features[3], d.features[4]>>,
          rng |-> d.rng ]

\* generate_features(lat, lon) run to completion with the global generator in
\* state rng at the call; rng in the result is the state it leaves behind.
generate_features(la, lo, rng) ==
    LET d == FourDraws(np_seed(SeedOf(la, lo)))
    IN  [seed |-> SeedOf(la, lo), features |-> d.features, rng |-> d.rng]

\* ----------------------------------------------------------- risk decision
\* int(prob > THRESHOLD)
DecideStrict(p) == IF 100 * p > THRESHOLD * ProbScale THEN 1 ELSE 0

\* int(prob >= THRESHOLD)
Decide(p) == IF 100 * p >= THRESHOLD * ProbScale THEN 1 ELSE 0

\* f"{prob * 100:.1f}%", in tenths of a percent
FormatMetric(p) == (2 * 1000 * p + ProbScale) \div (2 * ProbScale)

\* pest_risk == 0 -> st.success, else st.error
Banner(risk) == IF risk = 0 THEN "success" ELSE "error"

\* the st.info line: inside the else branch, under `if phone.strip():`
SmsShown(risk, ph) == risk # 0 /\ Strip(ph) # <<>>

\* ------------------------------------------------------------ model loading
\* load_models swallowing a failed joblib.load and handing back a placeholder.
load_models_lenient(ok) == "loaded"

\* load_models(): both artifacts deserialise, or joblib.load raises.
load_models(ok) == IF ok THEN "loaded" ELSE "error"

\* -------------------------------------------------------- location cascade
Rows(rows) == {rows[i] : i \in 1..Len(rows)}

\* a selectbox over no options returns None
Options(S) == IF S = {} THEN {None} ELSE S

Districts(rows) == {r.district : r \in Rows(rows)}
Talukas(rows, d) == {r.taluka : r \in {x \in Rows(rows) : x.district = d}}
Villages(rows, d, t) ==
    {r.village : r \in {x \in Rows(rows) : x.district = d /\ x.taluka = t}}

\* locations[(district == d) & (taluka == t) & (village == v)]
MatchAll(rows, d, t, v) ==
    SelectSeq(rows, LAMBDA r : r.district = d /\ r.taluka = t /\ r.village = v)

\* locations[locations["village"] == v]
MatchVillage(rows, v) == SelectSeq(rows, LAMBDA r : r.village = v)

\* ------------------------------------------------------------ a fresh run
NoFeatures == << >>

RunReset ==
    /\ err' = "none"
    /\ columns' = {}
    /\ loc_row' = << >>
    /\ lat' = 0
    /\ lon' = 0
    /\ seed' = Unset
    /\ features' = NoFeatures
    /\ invoked' = FALSE
    /\ scoredVia' = "none"
    /\ prob' = Unset
    /\ pest_risk' = Unset
    /\ metric' = Unset
    /\ banner' = "none"
    /\ sms' = FALSE

ThreadsIdle ==
    /\ tpc = [t \in Threads |-> "idle"]
    /\ targ = [t \in Threads |-> <<0, 0>>]
    /\ tseed = [t \in Threads |-> Unset]
    /\ tfeat = [t \in Threads |-> NoFeatures]

Init ==
    /\ variant \in {"app", "part_000"}
    /\ csvHeader \in Headers
    /\ csvRows \in Datasets
    /\ artifactsOk \in BOOLEAN
    /\ rice_model \in ClassifierKinds
    /\ cotton_model \in {XgbLike, SvmLike}
    /\ cotton_model = SvmLike => rice_model = LogRegLike
    /\ ~artifactsOk => rice_model = XgbLike
    /\ variant = "part_000" =>
           artifactsOk /\ rice_model = XgbLike /\ cotton_model = XgbLike
    /\ rngState \in 0..MaxInitRng
    /\ modelCache = "empty"
    /\ crop = "Rice"
    /\ district = None
    /\ taluka = None
    /\ village = None
    /\ phone = << >>
    /\ pc = "load_csv"
    /\ err = "none"
    /\ columns = {}
    /\ loc_row = << >>
    /\ lat = 0
    /\ lon = 0
    /\ seed = Unset
    /\ features = NoFeatures
    /\ invoked = FALSE
    /\ scoredVia = "none"
    /\ prob = Unset
    /\ pest_risk = Unset
    /\ metric = Unset
    /\ banner = "none"
    /\ sms = FALSE
    /\ memo = [c \in Coords |-> NoFeatures]
    /\ lastCall = << >>
    /\ between = FALSE
    /\ ThreadsIdle

\* The run ends in an uncaught exception: Streamlit shows the traceback and the
\* rest of the script is not executed.
Raise(e) == pc' = "crashed" /\ err' = e

\* --------------------------------------------------------------- src/app.py
\* pd.read_csv(CSV_PATH) and the column clean-up.
LoadLocations ==
    /\ variant = "app"
    /\ pc = "load_csv"
    /\ columns' = CleanColumns(csvHeader)
    /\ pc' = "validate"
    /\ UNCHANGED <<envVars, procVars, widgetVars, err, loc_row, lat, lon, scoreVars,
                   histVars, threadVars>>

\* required_cols.issubset(locations.columns), else st.error and st.stop().
ValidateSchema ==
    /\ variant = "app"
    /\ pc = "validate"
    /\ IF required_cols \subseteq columns
       THEN pc' = "load_models" /\ err' = err
       ELSE pc' = "stopped" /\ err' = "schema mismatch"
    /\ UNCHANGED <<envVars, procVars, widgetVars, locVars, scoreVars, histVars, threadVars>>

\* rice_model, cotton_model = load_models() under st.cache_resource: the body
\* runs only while nothing is cached; a raised exception is not cached.
LoadModels ==
    /\ variant = "app"
    /\ pc = "load_models"
    /\ IF modelCache = "loaded"
       THEN pc' = "widgets" /\ UNCHANGED <<modelCache, err>>
       ELSE IF load_models(artifactsOk) = "loaded"
            THEN pc' = "widgets" /\ modelCache' = "loaded" /\ err' = err
            ELSE Raise("ModelLoadError") /\ UNCHANGED modelCache
    /\ UNCHANGED <<envVars, rngState, widgetVars, locVars, scoreVars, histVars, threadVars>>

\* The crop radio, the three cascading selectboxes, loc_row and the phone input.
SelectInputs ==
    /\ variant = "app"
    /\ pc = "widgets"
    /\ \E c \in Crops, ph \in PhoneInputs :
       \E d \in Options(Districts(csvRows)) :
       \E t \in Options(Talukas(csvRows, d)) :
       \E v \in Options(Villages(csvRows, d, t)) :
          LET found == MatchAll(csvRows, d, t, v)
          IN  /\ crop' = c
              /\ district' = d
              /\ taluka' = t
              /\ village' = v
              /\ IF found = << >>
                 THEN /\ Raise("IndexError")
                      /\ UNCHANGED <<phone, loc_row, lat, lon>>
                 ELSE /\ loc_row' = <<found[1]>>
                      /\ lat' = found[1].lat
                      /\ lon' = found[1].lon
                      /\ phone' = ph
                      /\ pc' = "button"
                      /\ err' = err
    /\ UNCHANGED <<envVars, procVars, columns, scoreVars, histVars, threadVars>>

\* The history of generate_features results: the first vector returned for each
\* coordinate pair.
Remember(m, la, lo, f) ==
    IF m[<<la, lo>>] = NoFeatures THEN [m EXCEPT ![<<la, lo>>] = f] ELSE m

\* The "Check Pest Risk" button was pressed: features, predict_proba, the
\* threshold and the result widgets.
CheckPestRisk ==
    /\ variant = "app"
    /\ pc = "button"
    /\ LET g == generate_features(lat, lon, rngState)
           model == IF crop = "Rice" THEN rice_model ELSE cotton_model
       IN  /\ rngState' = g.rng
           /\ seed' = g.seed
           /\ features' = g.features
           /\ memo' = Remember(memo, lat, lon, g.features)
           /\ lastCall' = <<lat, lon>>
           /\ between' = (memo[<<lat, lon>>] # NoFeatures /\ lastCall # <<lat, lon>>)
           /\ IF "predict_proba" \notin model.caps
              THEN /\ Raise("AttributeError")
                   /\ UNCHANGED <<invoked, scoredVia, prob, pest_risk, metric, banner, sms>>
              ELSE IF model.raises
              THEN /\ Raise("ClassifierError")
                   /\ invoked' = TRUE
                   /\ UNCHANGED <<scoredVia, prob, pest_risk, metric, banner, sms>>
              ELSE \E p \in ProbValues :
                   /\ invoked' = TRUE
                   /\ scoredVia' = "predict_proba"
                   /\ prob' = p
                   /\ pest_risk' = Decide(p)
                   /\ metric' = FormatMetric(p)
                   /\ banner' = Banner(Decide(p))
                   /\ sms' = SmsShown(Decide(p), phone)
                   /\ pc' = "done"
                   /\ err' = err
    /\ UNCHANGED <<envVars, modelCache, widgetVars, locVars, threadVars>>

\* The button was not pressed in this run: only the footer follows.
NoClick ==
    /\ pc = "button"
    /\ pc' = "done"
    /\ UNCHANGED <<envVars, procVars, widgetVars, err, locVars, scoreVars, histVars, threadVars>>

\* Any interaction re-executes the script from the top.
Rerun ==
    /\ pc \in {"done", "stopped", "crashed"}
    /\ pc' = "load_csv"
    /\ RunReset
    /\ between' = FALSE
    /\ UNCHANGED <<envVars, procVars, widgetVars, memo, lastCall, threadVars>>

\* ----------------------------------------------------- src/unnamed/part_000
\* pd.read_csv("locations.csv"): the column names are taken as they are.
LegacyLoadLocations ==
    /\ variant = "part_000"
    /\ pc = "load_csv"
    /\ columns' = csvHeader
    /\ pc' = "widgets"
    /\ UNCHANGED <<envVars, procVars, widgetVars, err, loc_row, lat, lon, scoreVars,
                   histVars, threadVars>>

\* The crop radio, the selectboxes, loc_row (matched on the village name alone)
\* and the phone input.  A column that is not there raises KeyError where it is
\* first indexed: district, taluka, village at the selectboxes, lat and lon after
\* loc_row.
LegacySelectInputs ==
    /\ variant = "part_000"
    /\ pc = "widgets"
    /\ \E c \in Crops, ph \in PhoneInputs :
       \E d \in Options(Districts(csvRows)) :
       \E t \in Options(Talukas(csvRows, d)) :
       \E v \in Options(Villages(csvRows, d, t)) :
          LET found == MatchVillage(csvRows, v)
          IN  /\ crop' = c
              /\ IF ~({ColDistrict, ColTaluka, ColVillage} \subseteq columns)
                 THEN /\ Raise("KeyError")
                      /\ UNCHANGED <<district, taluka, village, phone, loc_row, lat, lon>>
                 ELSE /\ district' = d
                      /\ taluka' = t
                      /\ village' = v
                      /\ IF found = << >>
                         THEN /\ Raise("IndexError")
                              /\ UNCHANGED <<phone, loc_row, lat, lon>>
                         ELSE IF ~({ColLat, ColLon} \subseteq columns)
                         THEN /\ Raise("KeyError")
                              /\ loc_row' = <<found[1]>>
                              /\ UNCHANGED <<phone, lat, lon>>
                         ELSE /\ loc_row' = <<found[1]>>
                              /\ lat' = found[1].lat
                              /\ lon' = found[1].lon
                              /\ phone' = ph
                              /\ pc' = "button"
                              /\ err' = err
    /\ UNCHANGED <<envVars, procVars, columns, scoreVars, histVars, threadVars>>

\* The mock prediction: Rice is 0, Cotton is 1.
MockRisk(c) == IF c = "Rice" THEN 0 ELSE 1

\* The "Check Pest Risk" button of the mock variant.
LegacyCheckPestRisk ==
    /\ variant = "part_000"
    /\ pc = "button"
    /\ pest_risk' = MockRisk(crop)
    /\ banner' = Banner(MockRisk(crop))
    /\ sms' = SmsShown(MockRisk(crop), phone)
    /\ pc' = "done"
    /\ UNCHANGED <<envVars, procVars, widgetVars, err, locVars, seed, features, invoked,
                   scoredVia, prob, metric, histVars, threadVars>>

Next ==
    \/ LoadLocations
    \/ ValidateSchema
    \/ LoadModels
    \/ SelectInputs
    \/ CheckPestRisk
    \/ NoClick
    \/ Rerun
    \/ LegacyLoadLocations
    \/ LegacySelectInputs
    \/ LegacyCheckPestRisk

Spec == Init /\ [][Next]_vars

\* ------------------------------------- generate_features called concurrently
\* Each Streamlit session runs the script in a thread of its own; the threads of
\* one server process share numpy's global generator.  A call is taken line by
\* line: the seed computation, np.random.seed, the four draws, the return.
\* Each thread makes one call.
InitConc ==
    /\ variant = "app"
    /\ csvHeader = HeaderExact
    /\ csvRows = DataPune
    /\ artifactsOk = TRUE
    /\ rice_model = XgbLike
    /\ cotton_model = XgbLike
    /\ rngState \in 0..MaxInitRng
    /\ modelCache = "loaded"
    /\ crop = "Rice"
    /\ district = None
    /\ taluka = None
    /\ village = None
    /\ phone = << >>
    /\ pc = "button"
    /\ err = "none"
    /\ columns = required_cols
    /\ loc_row = << >>
    /\ lat = 0
    /\ lon = 0
    /\ seed = Unset
    /\ features = NoFeatures
    /\ invoked = FALSE
    /\ scoredVia = "none"
    /\ prob = Unset
    /\ pest_risk = Unset
    /\ metric = Unset
    /\ banner = "none"
    /\ sms = FALSE
    /\ memo = [c \in Coords |-> NoFeatures]
    /\ lastCall = << >>
    /\ between = FALSE
    /\ ThreadsIdle

seqVars == <<envVars, modelCache, widgetVars, pc, err, locVars, scoreVars, histVars>>

\* seed = int(abs(lat * lon) * 1000) % 10000, for the village of the session
TCall(t) ==
    /\ tpc[t] = "idle"
    /\ \E i \in 1..Len(csvRows) :
          /\ targ' = [targ EXCEPT ![t] = <<csvRows[i].lat, csvRows[i].lon>>]
          /\ tseed' = [tseed EXCEPT ![t] = SeedOf(csvRows[i].lat, csvRows[i].lon)]
    /\ tpc' = [tpc EXCEPT ![t] = "seed"]
    /\ UNCHANGED <<seqVars, rngState, tfeat>>

\* np.random.seed(seed)
TSeed(t) ==
    /\ tpc[t] = "seed"
    /\ rngState' = np_seed(tseed[t])
    /\ tpc' = [tpc EXCEPT ![t] = "draw"]
    /\ UNCHANGED <<seqVars, targ, tseed, tfeat>>

\* one np.random.uniform(low, high)
TDraw(t) ==
    /\ tpc[t] = "draw"
    /\ rngState' = RngNext(rngState)
    /\ tfeat' = [tfeat EXCEPT ![t] = Append(@, Draw(Len(@) + 1, rngState'))]
    /\ tpc' = [tpc EXCEPT ![t] = IF Len(tfeat[t]) = 3 THEN "return" ELSE "draw"]
    /\ UNCHANGED <<seqVars, targ, tseed>>

\* return np.array([[rainfall, temperature, humidity, ndvi]])
TReturn(t) ==
    /\ tpc[t] = "return"
    /\ tpc' = [tpc EXCEPT ![t] = "returned"]
    /\ UNCHANGED <<seqVars, rngState, targ, tseed, tfeat>>

NextConc == \E t \in Threads : TCall(t) \/ TSeed(t) \/ TDraw(t) \/ TReturn(t)

SpecConc == InitConc /\ [][NextConc]_vars

\* ------------------------------------------------------------------ claims
\* the classifier the handler scores with
CurrentModel == IF crop = "Rice" THEN rice_model ELSE cotton_model

\* a result banner is on the page: the verdict of this run was rendered
VerdictShown == banner # "none"

\* C1: for every probability the classifier produced in a risk check, the
\* verdict is Risk (pest_risk 1, the error banner) exactly when p >= 0.35, and
\* NoRisk (pest_risk 0, the success banner) exactly when p < 0.35.
C1_ThresholdVerdict ==
    prob # Unset =>
        /\ prob \in 0..ProbScale
        /\ (pest_risk = 1 /\ banner = "error") <=> (100 * prob >= 35 * ProbScale)
        /\ (pest_risk = 0 /\ banner = "success") <=> (100 * prob < 35 * ProbScale)

\* C1 witness: the classifier returned exactly 0.35 and the Risk banner is shown.
C1_AtBoundary == 100 * prob = 35 * ProbScale /\ banner = "error" /\ pest_risk = 1

\* C2: every call of generate_features returns the vector that the first call
\* with the same (lat, lon) returned, whatever calls for other coordinates were
\* made before it or in between.
C2_SameVectorEveryCall ==
    features # NoFeatures => features = memo[<<lat, lon>>]

\* C2 witness: a call repeats earlier coordinates after a call for other ones.
C2_RepeatedAfterOther == between /\ features # NoFeatures

\* C3: a call of generate_features leaves the process-wide generator in the
\* state it found it in.
C3_GlobalGeneratorUntouched ==
    [][(features = NoFeatures /\ features' # NoFeatures) => rngState' = rngState]_vars

\* C4: of two concurrent calls for different locations, each returns the vector
\* it returns when run alone for its own (lat, lon).
C4_ConcurrentCallsIsolated ==
    \A t, u \in Threads :
        (t # u /\ tpc[t] = "returned" /\ tpc[u] # "idle" /\ targ[t] # targ[u]) =>
            tfeat[t] = FourDraws(np_seed(SeedOf(targ[t][1], targ[t][2]))).features

\* C5: when the classifier raises on invocation, the risk check still ends with
\* a probability in [0,1] and a rendered verdict, and no exception reaches the
\* caller.
C5_ClassifierFailureAbsorbed ==
    (variant = "app" /\ features # NoFeatures /\ CurrentModel.raises) =>
        /\ pc # "crashed"
        /\ prob \in 0..ProbScale
        /\ VerdictShown

\* the strategy the dispatch priority selects for a set of capabilities
Strategy(caps) ==
    IF "predict_proba" \in caps THEN "predict_proba"
    ELSE IF "decision_function" \in caps THEN "decision_function"
    ELSE "predict"

\* C6: a classifier that does not raise is scored by the first strategy it
\* supports in the order probability, decision score, label; in particular one
\* without probability estimation is still scored.
C6_DispatchByPriority ==
    (variant = "app" /\ features # NoFeatures /\ ~CurrentModel.raises) =>
        /\ scoredVia = Strategy(CurrentModel.caps)
        /\ prob \in 0..ProbScale

\* C7: the SMS acknowledgment is shown exactly when the verdict is Risk and the
\* phone number holds a character that is not whitespace.
C7_SmsGate ==
    sms <=> /\ VerdictShown
            /\ pest_risk = 1
            /\ \E i \in 1..Len(phone) : phone[i] # " "

\* C7 witness: Risk verdict, phone " 9", acknowledgment shown.
C7_SmsShownForPaddedNumber == sms /\ phone = <<" ", "9">> /\ banner = "error"

\* C8: a risk check runs only with the coordinates of a dataset row whose
\* district, taluka and village are the selected ones; without such a row no
\* feature vector and no verdict come about.
C8_CheckUsesSelectedRow ==
    (features # NoFeatures \/ VerdictShown) =>
        /\ loc_row # << >>
        /\ \E i \in 1..Len(csvRows) : csvRows[i] = loc_row[1]
        /\ loc_row[1].district = district
        /\ loc_row[1].taluka = taluka
        /\ loc_row[1].village = village
        /\ lat = loc_row[1].lat
        /\ lon = loc_row[1].lon

\* a required column is missing from the CSV header after strip and lower-case
MissingColumn ==
    \E c \in required_cols : \A h \in csvHeader : Lower(Strip(h)) # c

NothingServed ==
    /\ features = NoFeatures
    /\ ~invoked
    /\ prob = Unset
    /\ pest_risk = Unset
    /\ ~VerdictShown
    /\ ~sms

\* C9: with a required column missing from the dataset, or a model artifact that
\* does not load, no state of any run has a feature vector, a classifier
\* invocation or a verdict; a run that reported the startup failure stays so.
C9_NoServiceAfterStartupFailure ==
    ( \/ MissingColumn
      \/ (variant = "app" /\ ~artifactsOk)
      \/ err \in {"schema mismatch", "ModelLoadError"} ) => NothingServed

\* C9 witness: the schema check stopped a run over a header without lon.
C9_StoppedOnSchema ==
    pc = "stopped" /\ err = "schema mismatch" /\ csvHeader = HeaderNoLon

\* C10: a generated vector has four fields, rainfall in [50,200], temperature in
\* [22,38], humidity in [45,90], ndvi in [0.25,0.85], in this order, each the
\* draw of its position from the generator seeded with the call's seed, and the
\* seed is in 0..9999.
C10_FeatureVectorShape ==
    features # NoFeatures =>
        /\ Len(features) = 4
        /\ seed \in 0..9999
        /\ 5000 * RngMod <= features[1] /\ features[1] <= 20000 * RngMod
        /\ 2200 * RngMod <= features[2] /\ features[2] <= 3800 * RngMod
        /\ 4500 * RngMod <= features[3] /\ features[3] <= 9000 * RngMod
        /\ 25 * RngMod <= features[4] /\ features[4] <= 85 * RngMod
        /\ features = FourDraws(np_seed(seed)).features

\* C10 witness: the vector for lat 19.0, lon 73.0, whose seed is 7000.
C10_VectorForSeed7000 ==
    features # NoFeatures /\ lat * 10 = 190 * CoordScale /\ lon * 10 = 730 * CoordScale
    /\ seed = 7000

====
